---- MODULE Spec2Model ----
(***************************************************************************)
(* CinemaToday: the session state machine of the HomePage component.       *)
(* State = the useState cells of HomePage, the position of the (single)    *)
(* fetchGame invocation, and the guess requests whose responses are still  *)
(* outstanding (each with the values its handleSubmitGuess closure         *)
(* captured at submission).  The collaborator (GET /today-game,            *)
(* POST /guess) is external: its responses are arbitrary values of the     *)
(* declared response types, or a failure.                                  *)
(***************************************************************************)
EXTENDS Bags, FiniteSets, Integers, Sequences, TLC

\* ---------------------------------------------------------------- bounds
MaxInFlight == 2        \* guess requests outstanding at once
MaxGuesses == 2         \* advancing verdicts applied + guesses outstanding

MaxTotal == 4           \* largest total_clues of a session on display

\* the retry budget of an exclusion load
MAX_RETRY_ATTEMPTS == 5

\* ------------------------------------------------------- value domains
Null == "<null>"
Slugs == {"", "A", "B"}
GuessInputs == {"", "g"}
TotalClues == {2}            \* total_clues of the sessions served
ClueIndexes == 0..2          \* clue indexes the collaborator reports

\* JavaScript truthiness of a string | null value
Truthy(x) == x # Null /\ x # ""

\* the films the collaborator serves: one has an empty slug and no poster,
\* one is reported as already solved
Films ==
  {[movie_slug |-> "", poster_url |-> Null, solved |-> FALSE],
   [movie_slug |-> "A", poster_url |-> "P", solved |-> FALSE],
   [movie_slug |-> "B", poster_url |-> "P", solved |-> TRUE]}

\* GET /today-game: the fields of the response the component uses.  A served
\* session is at a valid clue index.
TodayGameResponse ==
  {r \in {[movie_slug |-> f.movie_slug, total_clues |-> n,
            current_clue_index |-> i, current_clue_text |-> "C1",
            solved |-> f.solved, poster_url |-> f.poster_url] :
             f \in Films, n \in TotalClues, i \in ClueIndexes} :
     r.current_clue_index < r.total_clues}

\* POST /guess: the values of the fields of a verdict
NextClueTexts == {"C2", Null}
RevealTitles == {"T", Null}
VerdictMessages == {"m"}

\* a verdict carries the reveal (title and poster) or neither
Reveals ==
  {[reveal_title |-> "T", reveal_poster_url |-> "R"],
   [reveal_title |-> Null, reveal_poster_url |-> Null]}

\* verdicts with correct or finished, one for each combination of the fields
\* handleSubmitGuess reads on that path
FinishingVerdicts ==
  {[correct |-> TRUE, finished |-> TRUE, next_clue_index |-> 0,
    next_clue_text |-> text, reveal_title |-> r.reveal_title,
    reveal_poster_url |-> r.reveal_poster_url, message |-> m] :
     text \in NextClueTexts, r \in Reveals, m \in VerdictMessages}

\* verdicts with neither; the index they report may equal total_clues
AdvancingVerdicts ==
  [correct : {FALSE}, finished : {FALSE}, next_clue_index : ClueIndexes,
   next_clue_text : NextClueTexts, reveal_title : {Null},
   reveal_poster_url : {Null}, message : VerdictMessages]

\* status messages set by the component itself
MsgNoAlternative == "Could not find a different movie right now. Try again."
MsgNewMovieFailed == "Could not load a new movie. Please try again."
MsgLoadFailed == "Could not load today's game."
MsgGuessFailed == "Something went wrong when submitting your guess."

NoGame == [null |-> TRUE]

\* what setGame keeps of the response: the fields read after installation
\* (movie_slug, total_clues) and the solved flag
GameOf(data) ==
  [movie_slug |-> data.movie_slug, total_clues |-> data.total_clues,
   solved |-> data.solved]

VARIABLES game, currentClueIndex, currentClueText, isLoadingGame, guess,
          statusMessage, finished, revealedTitle, posterUrl, previousClues,
          load, fetches, outcome, inflight, shown

session == <<game, currentClueIndex, currentClueText, previousClues,
             posterUrl, finished, revealedTitle>>
loader == <<load, fetches, outcome>>
vars == <<game, currentClueIndex, currentClueText, isLoadingGame, guess,
          statusMessage, finished, revealedTitle, posterUrl, previousClues,
          load, fetches, outcome, inflight, shown>>

Init ==
  /\ game = NoGame
  /\ currentClueIndex = 0
  /\ currentClueText = Null
  /\ isLoadingGame = FALSE
  /\ guess = ""
  /\ statusMessage = Null
  /\ finished = FALSE
  /\ revealedTitle = Null
  /\ posterUrl = Null
  /\ previousClues = <<>>
  /\ load = [pc |-> "unmounted", requireDifferent |-> FALSE,
             excludeSlug |-> Null, attempt |-> 0]
  /\ fetches = 0
  /\ outcome = "none"
  /\ inflight = EmptyBag
  /\ shown = <<>>

\* ------------------------------------------------------------ fetchGame
\* the locals of fetchGame once the invocation has returned
Returned == [pc |-> "done", requireDifferent |-> FALSE,
             excludeSlug |-> Null, attempt |-> 0]

maxAttemptsSix(requireDifferent) ==
  IF requireDifferent THEN MAX_RETRY_ATTEMPTS + 1 ELSE 1

maxAttempts(requireDifferent) ==
  IF requireDifferent THEN MAX_RETRY_ATTEMPTS ELSE 1

AcceptsAnything(requireDifferent, excludeSlug, data) == TRUE

\* the acceptance test of the retry loop
Accepts(requireDifferent, excludeSlug, data) ==
  \/ ~requireDifferent
  \/ ~Truthy(excludeSlug)
  \/ data.movie_slug # excludeSlug

\* entry of fetchGame up to its first await
FetchGameStart(requireDifferent, excludeSlug) ==
  /\ isLoadingGame' = TRUE
  /\ statusMessage' = IF ~requireDifferent THEN Null ELSE statusMessage
  /\ load' = [pc |-> "fetching", requireDifferent |-> requireDifferent,
              excludeSlug |-> excludeSlug, attempt |-> 0]
  /\ fetches' = 1
  /\ outcome' = "none"
  /\ UNCHANGED <<session, guess, inflight, shown>>

\* useEffect on first render
Mount ==
  /\ load.pc = "unmounted"
  /\ FetchGameStart(FALSE, Null)

ClickNewMovieWhileLoading ==
  /\ game # NoGame
  /\ FetchGameStart(TRUE, game.movie_slug)

\* the "New movie" button: rendered when game is set, disabled while loading
ClickNewMovie ==
  /\ game # NoGame
  /\ ~isLoadingGame
  /\ FetchGameStart(TRUE, game.movie_slug)

InstallSessionKeepsClues(nextGame) ==
  /\ game' = GameOf(nextGame)
  /\ currentClueIndex' = nextGame.current_clue_index
  /\ currentClueText' = nextGame.current_clue_text
  /\ posterUrl' = nextGame.poster_url
  /\ previousClues' = previousClues
  /\ guess' = ""
  /\ finished' = FALSE
  /\ revealedTitle' = Null

InstallSessionHonoursSolved(nextGame) ==
  /\ game' = GameOf(nextGame)
  /\ currentClueIndex' = nextGame.current_clue_index
  /\ currentClueText' = nextGame.current_clue_text
  /\ posterUrl' = nextGame.poster_url
  /\ previousClues' = <<>>
  /\ guess' = ""
  /\ finished' = nextGame.solved
  /\ revealedTitle' = Null

\* the state updates of a successful load
InstallSession(nextGame) ==
  /\ game' = GameOf(nextGame)
  /\ currentClueIndex' = nextGame.current_clue_index
  /\ currentClueText' = nextGame.current_clue_text
  /\ posterUrl' = nextGame.poster_url
  /\ previousClues' = <<>>
  /\ guess' = ""
  /\ finished' = FALSE
  /\ revealedTitle' = Null

\* a response passes the acceptance test: the session is replaced
LoadAccept ==
  /\ load.pc = "fetching"
  /\ \E data \in TodayGameResponse :
       /\ Accepts(load.requireDifferent, load.excludeSlug, data)
       /\ InstallSession(data)
  /\ statusMessage' = IF load.requireDifferent THEN Null ELSE statusMessage
  /\ isLoadingGame' = FALSE
  /\ load' = Returned
  /\ outcome' = "installed"
  /\ shown' = <<>>
  /\ UNCHANGED <<fetches, inflight>>

\* a response carries the excluded slug and attempts remain: fetch again
LoadRetry ==
  /\ load.pc = "fetching"
  /\ \E slug \in Slugs :
       ~Accepts(load.requireDifferent, load.excludeSlug, [movie_slug |-> slug])
  /\ load.attempt + 1 < maxAttempts(load.requireDifferent)
  /\ load' = [load EXCEPT !.attempt = @ + 1]
  /\ fetches' = fetches + 1
  /\ UNCHANGED <<session, isLoadingGame, guess, statusMessage, outcome,
                 inflight, shown>>

LoadExhaustedDropsProgress ==
  /\ load.pc = "fetching"
  /\ \E slug \in Slugs :
       ~Accepts(load.requireDifferent, load.excludeSlug, [movie_slug |-> slug])
  /\ ~(load.attempt + 1 < maxAttempts(load.requireDifferent))
  /\ statusMessage' = MsgNoAlternative
  /\ isLoadingGame' = FALSE
  /\ load' = Returned
  /\ outcome' = "no-alternative-found"
  /\ previousClues' = <<>>
  /\ UNCHANGED <<game, currentClueIndex, currentClueText, posterUrl, finished,
                 revealedTitle, guess, fetches, inflight, shown>>

\* a response carries the excluded slug and no attempt remains
LoadExhausted ==
  /\ load.pc = "fetching"
  /\ \E slug \in Slugs :
       ~Accepts(load.requireDifferent, load.excludeSlug, [movie_slug |-> slug])
  /\ ~(load.attempt + 1 < maxAttempts(load.requireDifferent))
  /\ statusMessage' = MsgNoAlternative
  /\ isLoadingGame' = FALSE
  /\ load' = Returned
  /\ outcome' = "no-alternative-found"
  /\ UNCHANGED <<session, guess, fetches, inflight, shown>>

LoadFailCountsAsAttempt ==
  /\ load.pc = "fetching"
  /\ IF load.requireDifferent /\ load.attempt + 1 < maxAttempts(TRUE)
       THEN /\ load' = [load EXCEPT !.attempt = @ + 1]
            /\ fetches' = fetches + 1
            /\ UNCHANGED <<isLoadingGame, statusMessage, outcome>>
       ELSE /\ statusMessage' = IF load.requireDifferent THEN MsgNoAlternative
                                                         ELSE MsgLoadFailed
            /\ isLoadingGame' = FALSE
            /\ load' = Returned
            /\ outcome' = IF load.requireDifferent THEN "no-alternative-found"
                                                   ELSE "fetch-failed"
            /\ UNCHANGED fetches
  /\ UNCHANGED <<session, guess, inflight, shown>>

LoadFailKeepsGate ==
  /\ load.pc = "fetching"
  /\ statusMessage' = IF load.requireDifferent THEN MsgNewMovieFailed
                                               ELSE MsgLoadFailed
  /\ load' = Returned
  /\ outcome' = "fetch-failed"
  /\ UNCHANGED <<session, guess, fetches, inflight, shown, isLoadingGame>>

\* fetch rejects, status is not ok, or the body does not parse
LoadFail ==
  /\ load.pc = "fetching"
  /\ statusMessage' = IF load.requireDifferent THEN MsgNewMovieFailed
                                               ELSE MsgLoadFailed
  /\ isLoadingGame' = FALSE
  /\ load' = Returned
  /\ outcome' = "fetch-failed"
  /\ UNCHANGED <<session, guess, fetches, inflight, shown>>

\* ---------------------------------------------------- handleSubmitGuess
\* the input's onChange; the form is rendered when game is set and not finished
TypeGuess ==
  /\ game # NoGame
  /\ ~finished
  /\ \E g \in GuessInputs \ {guess} : guess' = g
  /\ UNCHANGED <<session, isLoadingGame, statusMessage, loader, inflight, shown>>

\* submit event up to the await.  The outstanding request is kept with the
\* movie_slug it was sent for and the currentClueText its closure captured;
\* the guess and current_clue_index of the body only inform the collaborator,
\* whose answer is unconstrained here.
SubmitGuess ==
  /\ ~(game = NoGame \/ finished)
  /\ BagCardinality(inflight) < MaxInFlight
  /\ Len(shown) + BagCardinality(inflight) < MaxGuesses
  /\ inflight' = inflight (+) SetToBag({[movie_slug |-> game.movie_slug,
                                         currentClueText |-> currentClueText]})
  /\ UNCHANGED <<session, isLoadingGame, guess, statusMessage, loader, shown>>

AppendClueNever(prev, text) == prev

AppendCluePrepends(prev, text) ==
  IF Truthy(text) THEN <<text>> \o prev ELSE prev

\* the functional update of previousClues on the advancing path
AppendClue(prev, text) == IF Truthy(text) THEN Append(prev, text) ELSE prev

\* response with correct or finished
GuessFinish ==
  \E req \in BagToSet(inflight), data \in FinishingVerdicts :
    /\ data.correct \/ data.finished
    /\ inflight' = inflight (-) SetToBag({req})
    /\ statusMessage' = data.message
    /\ finished' = TRUE
    /\ revealedTitle' = data.reveal_title
    /\ posterUrl' = IF Truthy(data.reveal_poster_url)
                      THEN data.reveal_poster_url ELSE posterUrl
    /\ currentClueText' = IF Truthy(data.next_clue_text)
                            THEN data.next_clue_text ELSE currentClueText
    /\ guess' = ""
    /\ UNCHANGED <<game, currentClueIndex, previousClues, isLoadingGame,
                   loader, shown>>

GuessAdvanceReopens ==
  \E req \in BagToSet(inflight), data \in AdvancingVerdicts :
    /\ ~(data.correct \/ data.finished)
    /\ inflight' = inflight (-) SetToBag({req})
    /\ statusMessage' = data.message
    /\ previousClues' = AppendClue(previousClues, req.currentClueText)
    /\ currentClueIndex' = data.next_clue_index
    /\ currentClueText' = data.next_clue_text
    /\ guess' = ""
    /\ shown' = Append(shown, req.currentClueText)
    /\ finished' = FALSE
    /\ UNCHANGED <<game, posterUrl, revealedTitle, isLoadingGame, loader>>

\* response with neither correct nor finished
GuessAdvance ==
  \E req \in BagToSet(inflight), data \in AdvancingVerdicts :
    /\ ~(data.correct \/ data.finished)
    /\ inflight' = inflight (-) SetToBag({req})
    /\ statusMessage' = data.message
    /\ previousClues' = AppendClue(previousClues, req.currentClueText)
    /\ currentClueIndex' = data.next_clue_index
    /\ currentClueText' = data.next_clue_text
    /\ guess' = ""
    /\ shown' = Append(shown, req.currentClueText)
    /\ UNCHANGED <<game, posterUrl, finished, revealedTitle, isLoadingGame,
                   loader>>

GuessFailKeepsInput ==
  \E req \in BagToSet(inflight) :
    /\ inflight' = inflight (-) SetToBag({req})
    /\ statusMessage' = MsgGuessFailed
    /\ UNCHANGED <<session, guess, isLoadingGame, loader, shown>>

\* fetch rejects, status is not ok, or the body does not parse
GuessFail ==
  \E req \in BagToSet(inflight) :
    /\ inflight' = inflight (-) SetToBag({req})
    /\ statusMessage' = MsgGuessFailed
    /\ guess' = ""
    /\ UNCHANGED <<session, isLoadingGame, loader, shown>>

Next ==
  \/ Mount
  \/ ClickNewMovie
  \/ LoadAccept
  \/ LoadRetry
  \/ LoadExhausted
  \/ LoadFail
  \/ TypeGuess
  \/ SubmitGuess
  \/ GuessFinish
  \/ GuessAdvance
  \/ GuessFail

Spec == Init /\ [][Next]_vars

\* a fetch of the running load gets its response or fails
LoadStep == LoadAccept \/ LoadRetry \/ LoadExhausted \/ LoadFail

\* every fetch is answered eventually: the browser resolves or rejects it
SpecFair == Init /\ [][Next]_vars /\ WF_vars(LoadStep)

\* ------------------------------------------------------- derived values
Min(a, b) == IF a <= b THEN a ELSE b
Max(a, b) == IF a >= b THEN a ELSE b

\* the blur range of the poster, in pixels
maxBlur == 30
minBlur == 12

\* x.toFixed(2) of the rational num/den >= 0, in hundredths: the nearest
\* hundredth, the larger one on a tie
toFixed2(num, den) == (200 * num + den) \div (2 * den)

posterBlurAmountStepsAreClues(g, poster, done, index) ==
  IF g = NoGame \/ ~Truthy(poster) THEN 0
  ELSE IF done THEN 0
  ELSE LET totalSteps == Max(g.total_clues, 1)
           blurRange == maxBlur - minBlur
           ratioNum == Min(index, totalSteps)
       IN  toFixed2(maxBlur * totalSteps - ratioNum * blurRange, totalSteps)

posterBlurAmountIgnoresFinished(g, poster, done, index) ==
  IF g = NoGame \/ ~Truthy(poster) THEN 0
  ELSE LET totalSteps == Max(g.total_clues - 1, 1)
           blurRange == maxBlur - minBlur
           ratioNum == Min(index, totalSteps)
       IN  toFixed2(maxBlur * totalSteps - ratioNum * blurRange, totalSteps)

\* posterBlurAmount, in hundredths of a pixel, for the session g with the
\* given poster, finished flag and clue index.  progressRatio is the
\* rational ratioNum / totalSteps.
posterBlurAmount(g, poster, done, index) ==
  IF g = NoGame \/ ~Truthy(poster) THEN 0
  ELSE IF done THEN 0
  ELSE LET totalSteps == Max(g.total_clues - 1, 1)
           blurRange == maxBlur - minBlur
           ratioNum == Min(index, totalSteps)
       IN  toFixed2(maxBlur * totalSteps - ratioNum * blurRange, totalSteps)

clueProgressPercentFromIndex(g, index) ==
  IF g = NoGame THEN [num |-> 0, den |-> 1]
  ELSE IF index * 100 <= 100 * g.total_clues
         THEN [num |-> index * 100, den |-> g.total_clues]
         ELSE [num |-> 100, den |-> 1]

\* clueProgressPercent as the exact rational num/den
clueProgressPercent(g, index) ==
  IF g = NoGame THEN [num |-> 0, den |-> 1]
  ELSE IF (index + 1) * 100 <= 100 * g.total_clues
         THEN [num |-> (index + 1) * 100, den |-> g.total_clues]
         ELSE [num |-> 100, den |-> 1]

\* order and equality of rationals with positive denominators
RatLess(a, b) == a.num * b.den < b.num * a.den
RatEq(a, b) == a.num * b.den = b.num * a.den

\* the sessions on display: the state after the load on mount has installed
\* a session of 1..MaxTotal clues; the guess form then drives it
DisplayedGameResponse ==
  {r \in {[movie_slug |-> f.movie_slug, total_clues |-> n,
            current_clue_index |-> i, current_clue_text |-> "C1",
            solved |-> f.solved, poster_url |-> f.poster_url] :
             f \in Films, n \in 1..MaxTotal, i \in 0..(MaxTotal - 1)} :
     r.current_clue_index < r.total_clues}

InitDisplay ==
  \E data \in DisplayedGameResponse :
    /\ game = GameOf(data)
    /\ currentClueIndex = data.current_clue_index
    /\ currentClueText = data.current_clue_text
    /\ posterUrl = data.poster_url
    /\ previousClues = <<>>
    /\ guess = ""
    /\ finished = FALSE
    /\ revealedTitle = Null
    /\ statusMessage = Null
    /\ isLoadingGame = FALSE
    /\ load = Returned
    /\ fetches = 1
    /\ outcome = "installed"
    /\ inflight = EmptyBag
    /\ shown = <<>>

NextDisplay ==
  \/ SubmitGuess
  \/ GuessFinish
  \/ GuessAdvance
  \/ GuessFail

SpecDisplay == InitDisplay /\ [][NextDisplay]_vars

\* ------------------------------------------------------------- steps
\* the running fetchGame invocation returns in this step
LoadReturns == load.pc = "fetching" /\ load'.pc = "done"

\* ... and it was started by the "New movie" button
ReloadReturns == LoadReturns /\ load.requireDifferent

\* the response to the outstanding guess req is handled in this step
Answered(req) ==
  /\ BagCardinality(inflight') < BagCardinality(inflight)
  /\ inflight' = inflight (-) SetToBag({req})

\* the fields of ClueProgress and GameSession a reload must preserve
progress == <<currentClueIndex, currentClueText, previousClues, posterUrl,
              finished, revealedTitle>>

\* ------------------------------------------------------------ claims
\* C1: an exclusion load with a non-empty excludeSlug has issued
\* attempt + 1 fetches, one after another and never more than 5; it installs
\* only a session whose slug differs from excludeSlug, issuing no fetch after
\* it, and it ends with no-alternative-found only after exactly 5 fetches.
C1_ExclusionLoadBounded ==
  [][(load.pc = "fetching" /\ load.requireDifferent /\ Truthy(load.excludeSlug)) =>
       /\ fetches = load.attempt + 1
       /\ fetches <= 5
       /\ fetches' # fetches =>
            fetches' = fetches + 1 /\ load'.pc = "fetching" /\ game' = game
       /\ (LoadReturns /\ outcome' = "installed") =>
            game'.movie_slug # load.excludeSlug /\ fetches' = fetches
       /\ (LoadReturns /\ outcome' = "no-alternative-found") =>
            fetches = 5 /\ fetches' = 5 /\ game' = game
       /\ (LoadReturns /\ game' = game) => outcome' # "installed"]_vars

\* responses A, A, B with excludeSlug = A: B is installed after 3 fetches
C1_Witness ==
  outcome = "installed" /\ fetches = 3 /\ game # NoGame /\ game.movie_slug = "B"

\* C2 as stated: the session a reload installs never has the slug that was
\* current when the reload was requested.
C2_ReloadAlwaysDiffers ==
  [][(ReloadReturns /\ outcome' = "installed") =>
       game'.movie_slug # game.movie_slug]_vars

\* C2 amended: the slug that was current at the request is the excludeSlug of
\* the reload, and when it is non-empty the installed session has another slug.
C2_ReloadDiffersFromNonEmptySlug ==
  [][(load.pc = "fetching" /\ load.requireDifferent) =>
       /\ game # NoGame /\ load.excludeSlug = game.movie_slug
       /\ (LoadReturns /\ outcome' = "installed" /\ Truthy(load.excludeSlug)) =>
            game'.movie_slug # game.movie_slug]_vars

\* a reload has installed a session on its second fetch
C2_Witness ==
  outcome = "installed" /\ fetches = 2 /\ game # NoGame /\ game.movie_slug = "A"

\* C3 as stated: an exclusion load that ends without a session always ends
\* with no-alternative-found, a failed fetch only using up an attempt.
C3_FailedFetchCountsAsAttempt ==
  [][(ReloadReturns /\ outcome' # "installed") =>
       /\ outcome' = "no-alternative-found"
       /\ statusMessage' = MsgNoAlternative]_vars

\* C3 amended: an exclusion load that ends without a session ends either
\* after 5 responses with the excluded slug, with no-alternative-found, or
\* at its first failed fetch, with the could-not-load message and no further
\* fetch; a failed fetch never leaves the load running, so a reload whose
\* excludeSlug is empty (every response is accepted) never fetches twice.
C3_FailedFetchEndsLoad ==
  [][/\ (ReloadReturns /\ outcome' # "installed") =>
          \/ /\ outcome' = "no-alternative-found"
             /\ statusMessage' = MsgNoAlternative
             /\ fetches = 5
          \/ /\ outcome' = "fetch-failed"
             /\ statusMessage' = MsgNewMovieFailed
             /\ fetches' = fetches
             /\ ~isLoadingGame'
     /\ (load.pc = "fetching" /\ load.requireDifferent
           /\ ~Truthy(load.excludeSlug)) =>
          fetches = 1 /\ fetches' = 1]_vars

\* a reload ended by the failure of its second fetch
C3_Witness ==
  /\ outcome = "fetch-failed" /\ fetches = 2
  /\ statusMessage = MsgNewMovieFailed /\ ~isLoadingGame

\* C4: the step in which a reload fails (attempts exhausted or fetch failed)
\* changes only statusMessage and isLoadingGame: game and the clue progress,
\* poster, finished and revealedTitle are as before.
C4_FailedReloadKeepsSession ==
  [][(ReloadReturns /\ outcome' # "installed") =>
       /\ game' = game
       /\ progress' = progress
       /\ ~isLoadingGame'
       /\ statusMessage' \in {MsgNoAlternative, MsgNewMovieFailed}]_vars

\* a session with recorded clues and a reveal after a reload that exhausted
\* its attempts
C4_Witness ==
  /\ outcome = "no-alternative-found" /\ statusMessage = MsgNoAlternative
  /\ previousClues # <<>> /\ finished /\ revealedTitle = "T"

\* the step applies some verdict by the claimed rule, `recorded` being the
\* value the rule gives previousClues on the advancing path: either a verdict
\* with correct or finished (finished set, revealedTitle its reveal_title,
\* previousClues and currentClueIndex kept), or one with neither (the current
\* clue becomes next_clue_index / next_clue_text, previousClues = recorded)
VerdictRule(recorded) ==
  /\ statusMessage' \in VerdictMessages
  /\ \/ /\ finished' = TRUE
        /\ previousClues' = previousClues
        /\ currentClueIndex' = currentClueIndex
        /\ revealedTitle' \in RevealTitles
     \/ /\ previousClues' = recorded
        /\ finished' = finished
        /\ revealedTitle' = revealedTitle
        /\ currentClueIndex' \in ClueIndexes
        /\ currentClueText' \in NextClueTexts

C6_EveryAdvanceRecorded == previousClues = shown

\* C6 amended: after N non-finishing verdicts previousClues holds, in the
\* order applied, those of the N submission-time clue texts that are neither
\* null nor empty; its length is N exactly when none of them was.
C6_NonEmptyAdvancesRecorded ==
  /\ previousClues = SelectSeq(shown, Truthy)
  /\ (Len(previousClues) = Len(shown)) =
       (\A i \in 1..Len(shown) : shown[i] \notin {Null, ""})

\* two non-finishing verdicts, the second on a null clue text
C6_Witness == shown = <<"C1", Null>> /\ previousClues = <<"C1">> /\ ~finished

C8_FinishedFreezesProgress ==
  [][(finished /\ ~(LoadReturns /\ outcome' = "installed")) =>
       /\ BagCardinality(inflight') <= BagCardinality(inflight)
       /\ currentClueIndex' = currentClueIndex
       /\ previousClues' = previousClues
       /\ game' = game]_vars

\* C9: the response to a guess submitted for another movie_slug than the
\* current session's changes nothing of the current session.
C9_StaleResponseDiscarded ==
  [][\A req \in BagToSet(inflight) :
       (Answered(req) /\ game # NoGame /\ req.movie_slug # game.movie_slug) =>
         progress' = progress]_vars

\* C10: a failed guess submission changes only statusMessage (and clears the
\* input); every handled guess response, verdict or failure, leaves the
\* guess input empty.
C10_FailedGuessKeepsProgress ==
  [][\A req \in BagToSet(inflight) :
       Answered(req) =>
         /\ guess' = ""
         /\ statusMessage' = MsgGuessFailed =>
              game' = game /\ progress' = progress]_vars

\* a failed submission in a session that had advanced
C10_Witness ==
  /\ statusMessage = MsgGuessFailed /\ guess = ""
  /\ previousClues = <<"C1">> /\ currentClueIndex = 1 /\ ~finished

\* C11: at most one guess request is outstanding at any time.
C11_OneGuessInFlight == BagCardinality(inflight) <= 1

\* a fetchGame invocation starts in this step
LoadStarts ==
  /\ load'.pc = "fetching" /\ load'.attempt = 0
  /\ load.pc # "fetching" \/ load.attempt # 0 \/ load'.excludeSlug # load.excludeSlug

\* C12: isLoadingGame is true exactly while a fetchGame invocation runs, and
\* no invocation starts while it is true: the load on mount is the only one
\* before a session exists, and the button starts the others one at a time.
C12_OneLoadOutstanding ==
  [][/\ isLoadingGame = (load.pc = "fetching")
     /\ LoadStarts => (~isLoadingGame /\ isLoadingGame')
     /\ (load.pc = "fetching" /\ load'.pc = "fetching") =>
          /\ load'.excludeSlug = load.excludeSlug
          /\ load'.attempt >= load.attempt]_vars

\* a reload on its third fetch, the button disabled
C12_Witness ==
  isLoadingGame /\ load.pc = "fetching" /\ load.requireDifferent /\ fetches = 3

\* C13: while a load is outstanding no guess request is issued.
C13_NoGuessWhileLoading ==
  [][isLoadingGame =>
       BagCardinality(inflight') <= BagCardinality(inflight)]_vars

\* C14: finished, once true, stays true through every step but a successful
\* load, which is a reload excluding the slug of the finished session.
C14_FinishedIsTerminal ==
  [][(finished /\ ~finished') =>
       /\ ReloadReturns /\ outcome' = "installed"
       /\ load.excludeSlug = game.movie_slug]_vars

\* a finished session after a failed guess and a failed reload
C14_Witness ==
  /\ finished /\ outcome = "fetch-failed" /\ game # NoGame
  /\ statusMessage = MsgGuessFailed

\* C15: between two successful loads currentClueIndex never decreases, and
\* in an unfinished loaded session it is a valid index of the session.
C15_IndexMonotoneInRange ==
  [][/\ ~(LoadReturns /\ outcome' = "installed") =>
          currentClueIndex' >= currentClueIndex
     /\ (game # NoGame /\ ~finished) =>
          (0 <= currentClueIndex /\ currentClueIndex < game.total_clues)]_vars

\* the session on display is unfinished and has a poster
Blurred == game # NoGame /\ Truthy(posterUrl) /\ ~finished

\* the blur intensity of the session on display at clue index i
BlurAt(i) == posterBlurAmount(game, posterUrl, finished, i)

\* C16: for an unfinished session with a poster the blur intensity (in
\* hundredths) is non-increasing over the indexes 0..total_clues-1, is 30 at
\* index 0 and, for total_clues >= 2, exactly 12 at index total_clues-1; for
\* total_clues = 1 the denominator is 1, so that index 1 would give 12.
C16_BlurFallsFromMaxToMin ==
  Blurred =>
    /\ \A i \in 0..(game.total_clues - 1), j \in 0..(game.total_clues - 1) :
         i <= j => BlurAt(j) <= BlurAt(i)
    /\ BlurAt(0) = 100 * maxBlur
    /\ game.total_clues >= 2 => BlurAt(game.total_clues - 1) = 100 * minBlur
    /\ game.total_clues = 1 => BlurAt(1) = 100 * minBlur
    /\ BlurAt(currentClueIndex) \in (100 * minBlur)..(100 * maxBlur)

\* an unfinished session of the largest size that has advanced to its
\* second clue: the blur lies strictly between the two ends
C16_Witness ==
  /\ Blurred /\ game.total_clues = MaxTotal /\ currentClueIndex = 1
  /\ Len(shown) = 1
  /\ BlurAt(1) < BlurAt(0) /\ BlurAt(1) > 100 * minBlur

\* C17: the blur intensity is 0 in every state where finished is true or no
\* poster is available, at every clue index.
C17_SharpWhenFinishedOrNoPoster ==
  (finished \/ ~Truthy(posterUrl) \/ game = NoGame) =>
    \A i \in 0..MaxTotal : BlurAt(i) = 0

\* a finishing verdict has just installed the reveal poster
C17_Witness ==
  /\ finished /\ posterUrl = "R" /\ game.total_clues = MaxTotal
  /\ BlurAt(currentClueIndex) = 0

\* the progress percentage of the session on display at clue index i
PercentAt(i) == clueProgressPercent(game, i)

\* C18: the progress percentage is min((index+1)/total_clues, 1) * 100; it
\* lies in [0,100], is 100 at index total_clues-1 and strictly increases
\* over the indexes below total_clues-1.
C18_ProgressPercent ==
  game # NoGame =>
    /\ \A i \in 0..MaxTotal :
         /\ RatEq(PercentAt(i),
                  [num |-> Min(i + 1, game.total_clues) * 100,
                   den |-> game.total_clues])
         /\ ~RatLess(PercentAt(i), [num |-> 0, den |-> 1])
         /\ ~RatLess([num |-> 100, den |-> 1], PercentAt(i))
    /\ RatEq(PercentAt(game.total_clues - 1), [num |-> 100, den |-> 1])
    /\ \A i \in 0..(game.total_clues - 2) :
         RatLess(PercentAt(i), PercentAt(i + 1))

\* a session of three clues that has advanced to its second: 200/3 percent
C18_Witness ==
  /\ game # NoGame /\ game.total_clues = 3 /\ currentClueIndex = 1
  /\ Len(shown) = 1 /\ ~finished
  /\ RatEq(PercentAt(currentClueIndex), [num |-> 200, den |-> 3])

\* C19: a successful load installs game, currentClueIndex, currentClueText
\* and posterUrl of one response together with empty previousClues, finished
\* false, no revealed title and an empty input; and previousClues, finished
\* and revealedTitle of the installed session are then owed to guesses
\* submitted for its movie_slug only, never to the session it replaced.
C19_LoadReplacesSessionWhole ==
  [][LET installs == LoadReturns /\ outcome' = "installed"
     IN  /\ installs =>
              /\ \E data \in TodayGameResponse :
                   /\ game' = GameOf(data)
                   /\ currentClueIndex' = data.current_clue_index
                   /\ currentClueText' = data.current_clue_text
                   /\ posterUrl' = data.poster_url
              /\ previousClues' = <<>> /\ ~finished'
              /\ revealedTitle' = Null /\ guess' = ""
         /\ (~installs /\ game # NoGame
               /\ <<previousClues, finished, revealedTitle>>'
                     # <<previousClues, finished, revealedTitle>>) =>
              \E req \in BagToSet(inflight) :
                Answered(req) /\ req.movie_slug = game.movie_slug]_vars

\* C20: every invocation of fetchGame eventually returns with isLoadingGame
\* reset to false, whichever way it ends, given that each fetch is answered.
C20_LoadReleasesGate ==
  (isLoadingGame \/ load.pc = "fetching") ~> (~isLoadingGame /\ load.pc = "done")

\* a reload has returned after its last attempt and the button is enabled
C20_Witness ==
  /\ ~isLoadingGame /\ load.pc = "done" /\ game # NoGame
  /\ outcome = "no-alternative-found" /\ fetches = MAX_RETRY_ATTEMPTS

\* the guess form has room for one more submission within the bounds
RoomToSubmit ==
  /\ BagCardinality(inflight) < MaxInFlight
  /\ Len(shown) + BagCardinality(inflight) < MaxGuesses

\* C21: every successful load ends with a session on display, the loading
\* flag released, finished false and no revealed title, also when the
\* response reports solved; and a session reported as solved accepts a
\* guess as long as it is not finished.
C21_SolvedIsIgnored ==
  /\ [][(LoadReturns /\ outcome' = "installed") =>
          /\ game' # NoGame /\ ~isLoadingGame'
          /\ ~finished' /\ revealedTitle' = Null]_vars
  /\ [](game # NoGame /\ game.solved /\ ~finished /\ RoomToSubmit =>
          ENABLED SubmitGuess)

\* a guess is outstanding on a session that was loaded as solved
C21_Witness ==
  /\ game # NoGame /\ game.solved /\ ~finished /\ revealedTitle = Null
  /\ outcome = "installed"
  /\ [movie_slug |-> game.movie_slug, currentClueText |-> "C1"]
       \in BagToSet(inflight)
====
